---- MODULE Spec2Model ----
(***************************************************************************)
(* Model of src/src/CourseCatalog.jsx: the normalisation of the raw course *)
(* records, the filter and grouping passes of the CourseCatalog component, *)
(* and the component's event handlers.                                     *)
(*                                                                         *)
(* Strings are sequences of one-character strings, so that toLowerCase,    *)
(* includes, startsWith, the default Array sort and localeCompare are      *)
(* computed character by character.  An optional JSON field is a value     *)
(* together with the set "missing" of the field names the record lacks.    *)
(* The display-only fields of a course (tracks, length, credits,           *)
(* prerequisite, diploma, notes, fees) are read by no handler and are      *)
(* left out of the records.                                                *)
(***************************************************************************)
EXTENDS Integers, Sequences, FiniteSets, TLC

VARIABLES rawCourses, COURSES, DEPARTMENTS,
          selectedGrades, selectedDept, searchQuery, expandedId, apOnly,
          filtered, grouped, renderError

vars == <<rawCourses, COURSES, DEPARTMENTS,
          selectedGrades, selectedDept, searchQuery, expandedId, apOnly,
          filtered, grouped, renderError>>

filterVars == <<selectedGrades, selectedDept, searchQuery, apOnly>>

\* Longest dataset the initial states draw.
MaxCourses == 3

-----------------------------------------------------------------------------
\* Characters and strings

Upper == <<"A","B","C","D","E","F","G","H","I","J","K","L","M",
           "N","O","P","Q","R","S","T","U","V","W","X","Y","Z">>

Lower == <<"a","b","c","d","e","f","g","h","i","j","k","l","m",
           "n","o","p","q","r","s","t","u","v","w","x","y","z">>

Digits == <<"0","1","2","3","4","5","6","7","8","9">>

InSeq(ch, s) == \E i \in DOMAIN s : s[i] = ch

Idx(ch, s) == CHOOSE i \in DOMAIN s : s[i] = ch

\* The characters of the strings of the model: space, digits, ASCII letters.
Chars ==
    {" "} \cup {Upper[i] : i \in DOMAIN Upper} \cup {Lower[i] : i \in DOMAIN Lower}
          \cup {Digits[i] : i \in DOMAIN Digits}

\* UTF-16 code unit of a character.
charCodeAt ==
    [ch \in Chars |->
        IF InSeq(ch, Upper) THEN 64 + Idx(ch, Upper)
        ELSE IF InSeq(ch, Lower) THEN 96 + Idx(ch, Lower)
        ELSE IF InSeq(ch, Digits) THEN 47 + Idx(ch, Digits)
        ELSE 32]

toLowerCaseChar ==
    [ch \in Chars |-> IF InSeq(ch, Upper) THEN Lower[Idx(ch, Upper)] ELSE ch]

\* String.prototype.toLowerCase
toLowerCase(s) == IF s = <<>> THEN <<>> ELSE [i \in 1..Len(s) |-> toLowerCaseChar[s[i]]]

\* String.prototype.includes
includes(s, q) == \E i \in 0..(Len(s) - Len(q)) : SubSeq(s, i + 1, i + Len(q)) = q

\* String.prototype.startsWith
startsWith(s, p) == Len(s) >= Len(p) /\ SubSeq(s, 1, Len(p)) = p

Min(a, b) == IF a < b THEN a ELSE b

\* First position at which the two key sequences differ, 0 when one is a
\* prefix of the other.
FirstDiff(ka, kb) ==
    LET D == {i \in 1..Min(Len(ka), Len(kb)) : ka[i] # kb[i]}
    IN IF D = {} THEN 0 ELSE CHOOSE i \in D : \A j \in D : i <= j

\* Three-way lexicographic comparison of two sequences of integers.
CompareKeys(ka, kb) ==
    LET d == FirstDiff(ka, kb)
    IN IF d # 0 THEN (IF ka[d] < kb[d] THEN -1 ELSE 1)
       ELSE IF Len(ka) < Len(kb) THEN -1
       ELSE IF Len(ka) > Len(kb) THEN 1
       ELSE 0

CodeUnits(s) == IF s = <<>> THEN <<>> ELSE [i \in 1..Len(s) |-> charCodeAt[s[i]]]

\* The order of Array.prototype.sort() without a comparator: strings
\* compared by UTF-16 code units.
CodeUnitLess(a, b) == CompareKeys(CodeUnits(a), CodeUnits(b)) < 0

\* Collation weights of String.prototype.localeCompare in the root
\* collation: the primary weight orders space before digits before letters
\* and ignores case; the case weight puts lower case before upper case.
PrimaryWeight ==
    [ch \in Chars |->
        IF InSeq(ch, Upper) THEN 100 + Idx(ch, Upper)
        ELSE IF InSeq(ch, Lower) THEN 100 + Idx(ch, Lower)
        ELSE IF InSeq(ch, Digits) THEN 10 + Idx(ch, Digits)
        ELSE 1]

CaseWeight == [ch \in Chars |-> IF InSeq(ch, Upper) THEN 1 ELSE 0]

PrimaryKey(s) == IF s = <<>> THEN <<>> ELSE [i \in 1..Len(s) |-> PrimaryWeight[s[i]]]

CaseKey(s) == IF s = <<>> THEN <<>> ELSE [i \in 1..Len(s) |-> CaseWeight[s[i]]]

\* String.prototype.localeCompare: primary difference first, case second.
localeCompare(a, b) ==
    LET p == CompareKeys(PrimaryKey(a), PrimaryKey(b))
    IN IF p # 0 THEN p ELSE CompareKeys(CaseKey(a), CaseKey(b))

sEmpty == <<>>
sAll == <<"A","l","l">>
sEnglish == <<"E","n","g","l","i","s","h">>
sAPprefix == <<"A","P"," ">>

\* The value of expandedId when no card is open.
null == <<"null">>

\* The grade buttons of the filter bar.
GRADES == <<9, 10, 11, 12>>

-----------------------------------------------------------------------------
\* Data normalisation

\* JavaScript truthiness of an optional string field of a raw record.
Truthy(c, f) == f \notin c.missing /\ c[f] # sEmpty

departmentNoEnglish(c) ==
    IF Truthy(c, "sub_subject") THEN c.sub_subject ELSE c.subject

department(c) ==
    IF c.subject = sEnglish THEN sEnglish
    ELSE IF Truthy(c, "sub_subject") THEN c.sub_subject ELSE c.subject

apPrefixNoSpace(name) == startsWith(name, <<"A","P">>)

apFlag(name) == startsWith(name, sAPprefix)

\* The callback of rawCourses.map: one canonical course per raw record.
\* "undef" holds the names of the canonical fields whose value is undefined.
normalize(c) ==
    [id          |-> c.code,
     name        |-> c.name,
     code        |-> c.code,
     department  |-> department(c),
     subject     |-> c.subject,
     grades      |-> c.grades,
     description |-> IF Truthy(c, "description") THEN c.description ELSE sEmpty,
     ap          |-> apFlag(c.name),
     undef       |-> c.missing \cap {"grades"}]

normalizeAll(raw) == IF raw = <<>> THEN <<>> ELSE [i \in 1..Len(raw) |-> normalize(raw[i])]

\* Insertion of a string into a list sorted by code units.
InsertCodeUnit(x, sorted) ==
    LET p == Cardinality({i \in DOMAIN sorted : ~CodeUnitLess(x, sorted[i])})
    IN SubSeq(sorted, 1, p) \o <<x>> \o SubSeq(sorted, p + 1, Len(sorted))

RECURSIVE SortCodeUnit(_)
SortCodeUnit(s) ==
    IF s = <<>> THEN <<>>
    ELSE InsertCodeUnit(s[Len(s)], SortCodeUnit(SubSeq(s, 1, Len(s) - 1)))

\* new Set(list) spread back into an array: first occurrences, in order.
RECURSIVE Distinct(_)
Distinct(s) ==
    IF s = <<>> THEN <<>>
    ELSE LET d == Distinct(SubSeq(s, 1, Len(s) - 1))
         IN IF InSeq(s[Len(s)], d) THEN d ELSE Append(d, s[Len(s)])

DepartmentColumn(courses) ==
    IF courses = <<>> THEN <<>> ELSE [i \in 1..Len(courses) |-> courses[i].department]

departmentsUnsorted(courses) == Distinct(DepartmentColumn(courses))

departmentsOf(courses) == SortCodeUnit(Distinct(DepartmentColumn(courses)))

-----------------------------------------------------------------------------
\* Filter pass

\* c.grades.some((g) => selectedGrades.has(g))
gradeMatch(c, sg) == \E i \in DOMAIN c.grades : c.grades[i] \in sg

\* The four lower-cased includes tests of the search branch.
textMatch(c, query) ==
    LET q == toLowerCase(query)
    IN \/ includes(toLowerCase(c.name), q)
       \/ includes(toLowerCase(c.code), q)
       \/ includes(toLowerCase(c.department), q)
       \/ includes(toLowerCase(c.description), q)

keepTextFirst(c, sg, sd, query, ap) ==
    IF ~gradeMatch(c, sg) THEN FALSE
    ELSE IF query # sEmpty /\ textMatch(c, query) THEN TRUE
    ELSE IF sd # sAll /\ c.department # sd THEN FALSE
    ELSE IF ap /\ ~c.ap THEN FALSE
    ELSE query = sEmpty

keepEmptyMeansAll(c, sg, sd, query, ap) ==
    IF sg # {} /\ ~gradeMatch(c, sg) THEN FALSE
    ELSE IF sd # sAll /\ c.department # sd THEN FALSE
    ELSE IF ap /\ ~c.ap THEN FALSE
    ELSE IF query # sEmpty THEN textMatch(c, query)
    ELSE TRUE

\* The callback of COURSES.filter, with its early returns in order.
keep(c, sg, sd, query, ap) ==
    IF ~gradeMatch(c, sg) THEN FALSE
    ELSE IF sd # sAll /\ c.department # sd THEN FALSE
    ELSE IF ap /\ ~c.ap THEN FALSE
    ELSE IF query # sEmpty THEN textMatch(c, query)
    ELSE TRUE

RECURSIVE filterReversed(_, _, _, _, _)
filterReversed(courses, sg, sd, query, ap) ==
    IF courses = <<>> THEN <<>>
    ELSE LET rest == filterReversed(SubSeq(courses, 1, Len(courses) - 1), sg, sd, query, ap)
             c == courses[Len(courses)]
         IN IF keep(c, sg, sd, query, ap) THEN <<c>> \o rest ELSE rest

\* COURSES.filter(callback): the kept courses, in the order of the array.
RECURSIVE filterPass(_, _, _, _, _)
filterPass(courses, sg, sd, query, ap) ==
    IF courses = <<>> THEN <<>>
    ELSE LET rest == filterPass(SubSeq(courses, 1, Len(courses) - 1), sg, sd, query, ap)
             c == courses[Len(courses)]
         IN IF keep(c, sg, sd, query, ap) THEN Append(rest, c) ELSE rest

\* c.grades.some(...) is a call on undefined when the record has no grades
\* field: the filter callback throws a TypeError on that course, whatever
\* the filter state, and the render fails.
filterThrows(courses) == \E i \in DOMAIN courses : "grades" \in courses[i].undef

-----------------------------------------------------------------------------
\* Grouping pass

RECURSIVE bucketsOverwrite(_)
bucketsOverwrite(f) ==
    IF f = <<>> THEN <<>>
    ELSE LET map == bucketsOverwrite(SubSeq(f, 1, Len(f) - 1))
             c == f[Len(f)]
         IN IF \E k \in DOMAIN map : map[k][1] = c.department
            THEN [k \in DOMAIN map |->
                    IF map[k][1] = c.department THEN <<map[k][1], <<c>>>> ELSE map[k]]
            ELSE Append(map, <<c.department, <<c>>>>)

\* filtered.forEach: the buckets of the map object, in key insertion order,
\* as (department, courses) pairs.
RECURSIVE buckets(_)
buckets(f) ==
    IF f = <<>> THEN <<>>
    ELSE LET map == buckets(SubSeq(f, 1, Len(f) - 1))
             c == f[Len(f)]
         IN IF \E k \in DOMAIN map : map[k][1] = c.department
            THEN [k \in DOMAIN map |->
                    IF map[k][1] = c.department
                    THEN <<map[k][1], Append(map[k][2], c)>>
                    ELSE map[k]]
            ELSE Append(map, <<c.department, <<c>>>>)

\* Insertion of an entry into a list sorted by the comparator
\* (a, b) => a[0].localeCompare(b[0]); the sort is stable.
InsertEntry(x, sorted) ==
    LET p == Cardinality({i \in DOMAIN sorted : localeCompare(x[1], sorted[i][1]) >= 0})
    IN SubSeq(sorted, 1, p) \o <<x>> \o SubSeq(sorted, p + 1, Len(sorted))

RECURSIVE SortEntries(_)
SortEntries(s) ==
    IF s = <<>> THEN <<>>
    ELSE InsertEntry(s[Len(s)], SortEntries(SubSeq(s, 1, Len(s) - 1)))

groupUnsorted(f) == buckets(f)

\* Object.entries(map).sort(...)
groupPass(f) == SortEntries(buckets(f))

-----------------------------------------------------------------------------
\* The component

\* The option values of the department select.
deptOptions == <<sAll>> \o DEPARTMENTS

\* The number in the "courses shown" label.
countShown == Len(filtered)

\* The condition under which "No courses match your filters" is rendered.
noResults == Len(grouped) = 0

\* One render of the component: the two useMemo passes, or the error the
\* filter callback throws.
Render(sg, sd, query, ap) ==
    IF filterThrows(COURSES)
    THEN /\ filtered' = <<>>
         /\ grouped' = <<>>
         /\ renderError' = TRUE
    ELSE /\ filtered' = filterPass(COURSES, sg, sd, query, ap)
         /\ grouped' = groupPass(filtered')
         /\ renderError' = FALSE

\* The updater of setSelectedGrades.
toggled(prev, g) == IF g \in prev THEN prev \ {g} ELSE prev \cup {g}

ToggleGradeCollapse(g) ==
    /\ ~renderError
    /\ selectedGrades' = toggled(selectedGrades, g)
    /\ expandedId' = null
    /\ UNCHANGED <<rawCourses, COURSES, DEPARTMENTS, selectedDept, searchQuery, apOnly>>
    /\ Render(selectedGrades', selectedDept, searchQuery, apOnly)

\* onClick of a grade button.
ToggleGrade(g) ==
    /\ ~renderError
    /\ selectedGrades' = toggled(selectedGrades, g)
    /\ UNCHANGED <<rawCourses, COURSES, DEPARTMENTS, selectedDept, searchQuery,
                   expandedId, apOnly>>
    /\ Render(selectedGrades', selectedDept, searchQuery, apOnly)

\* onClick of the AP Only button.
ToggleApOnly ==
    /\ ~renderError
    /\ apOnly' = ~apOnly
    /\ UNCHANGED <<rawCourses, COURSES, DEPARTMENTS, selectedGrades, selectedDept,
                   searchQuery, expandedId>>
    /\ Render(selectedGrades, selectedDept, searchQuery, apOnly')

\* onChange of the department select.
SetSelectedDept(d) ==
    /\ ~renderError
    /\ selectedDept' = d
    /\ UNCHANGED <<rawCourses, COURSES, DEPARTMENTS, selectedGrades, searchQuery,
                   expandedId, apOnly>>
    /\ Render(selectedGrades, selectedDept', searchQuery, apOnly)

\* onChange of the search input.
SetSearchQuery(q) ==
    /\ ~renderError
    /\ searchQuery' = q
    /\ UNCHANGED <<rawCourses, COURSES, DEPARTMENTS, selectedGrades, selectedDept,
                   expandedId, apOnly>>
    /\ Render(selectedGrades, selectedDept, searchQuery', apOnly)

cardAlwaysOpens(expanded, id) == id

\* The value a card's onClick passes to setExpandedId.
cardOnClick(expanded, id) == IF expanded = id THEN null ELSE id

\* onClick of the card of a course; the cards are those of the grouped list.
\* No dependency of either useMemo changes, so both lists are kept.
ClickCard(id) ==
    /\ ~renderError
    /\ \E k \in DOMAIN grouped : \E i \in DOMAIN grouped[k][2] : grouped[k][2][i].id = id
    /\ expandedId' = cardOnClick(expandedId, id)
    /\ UNCHANGED <<rawCourses, COURSES, DEPARTMENTS, selectedGrades, selectedDept,
                   searchQuery, apOnly, filtered, grouped, renderError>>

-----------------------------------------------------------------------------
\* Inputs

Raw(code, name, subject, sub_subject, grades, description, missing) ==
    [code |-> code, name |-> name, subject |-> subject, sub_subject |-> sub_subject,
     grades |-> grades, description |-> description, missing |-> missing]

rEnglishLit ==
    Raw(<<"E","1">>, <<"A","P"," ","L","i","t">>, sEnglish, <<"L","i","t">>,
        <<11, 12>>, sEmpty, {"description"})

rApBio ==
    Raw(<<"S","1">>, <<"A","P"," ","B","i","o">>, <<"S","c","i">>, sEmpty,
        <<9, 10>>, sEmpty, {"sub_subject"})

rBio ==
    Raw(<<"S","2">>, <<"a","p"," ","B","i","o">>, <<"S","c","i">>, sEmpty,
        <<11, 12>>, <<"l","a","b">>, {})

rApplied ==
    Raw(<<"M","1">>, <<"A","P","P","L","I","E","D"," ","M","a","t","h">>, <<"C","T","E">>,
        <<"a","r","t">>, <<10>>, <<"b","i","o"," ","c","l","u","b">>, {})

rNoGrades ==
    Raw(<<"N","1">>, <<"A","P"," ","B","i","o">>, <<"S","c","i">>, sEmpty,
        <<>>, sEmpty, {"sub_subject"})

rGradesAbsent ==
    Raw(<<"N","2">>, <<"B","i","o">>, <<"S","c","i">>, sEmpty,
        <<>>, sEmpty, {"sub_subject", "grades"})

\* Records that conform to the raw schema: grades non-empty, within 9..12.
ValidPool == {rEnglishLit, rApBio, rBio, rApplied}

\* Records of which some have an empty or no grades field.
DefectivePool == {rApBio, rApplied, rNoGrades, rGradesAbsent}

\* The datasets over a pool: at most MaxCourses records, codes unique.
Datasets(pool) ==
    {d \in UNION {[1..n -> pool] : n \in 0..MaxCourses} :
        \A i, j \in DOMAIN d : i # j => d[i].code # d[j].code}

\* The texts typed into the search input.
Queries == {sEmpty, <<"B","i","o">>, <<"a","r","t">>, <<"s","1">>}

-----------------------------------------------------------------------------
\* Specifications

\* Module load (COURSES, DEPARTMENTS), the useState defaults and the first
\* render.
InitOf(pool) ==
    /\ rawCourses \in Datasets(pool)
    /\ COURSES = normalizeAll(rawCourses)
    /\ DEPARTMENTS = departmentsOf(COURSES)
    /\ selectedGrades = {9, 10, 11, 12}
    /\ selectedDept = sAll
    /\ searchQuery = sEmpty
    /\ expandedId = null
    /\ apOnly = FALSE
    /\ renderError = filterThrows(COURSES)
    /\ filtered = IF renderError THEN <<>>
                  ELSE filterPass(COURSES, selectedGrades, selectedDept, searchQuery, apOnly)
    /\ grouped = groupPass(filtered)

Init == InitOf(ValidPool)

InitDefective == InitOf(DefectivePool)

Next ==
    \/ \E i \in DOMAIN GRADES : ToggleGrade(GRADES[i])
    \/ ToggleApOnly
    \/ \E i \in DOMAIN deptOptions : SetSelectedDept(deptOptions[i])
    \/ \E q \in Queries : SetSearchQuery(q)
    \/ \E i \in DOMAIN COURSES : ClickCard(COURSES[i].id)

Spec == Init /\ [][Next]_vars

SpecDefective == InitDefective /\ [][Next]_vars

-----------------------------------------------------------------------------
\* Properties

IsSubstring(q, s) == \E i \in 1..(Len(s) + 1) : \E j \in 0..Len(s) : SubSeq(s, i, j) = q

Shown(c) == \E k \in DOMAIN filtered : filtered[k] = c

FullSelection ==
    /\ selectedGrades = {9, 10, 11, 12}
    /\ selectedDept = sAll
    /\ searchQuery = sEmpty
    /\ apOnly = FALSE

GradeOk(c) == {c.grades[k] : k \in DOMAIN c.grades} \cap selectedGrades # {}

DeptOk(c) == selectedDept = sAll \/ selectedDept = c.department

ApOk(c) == apOnly = FALSE \/ c.ap = TRUE

TextOk(c) ==
    \/ searchQuery = sEmpty
    \/ \E f \in {"name", "code", "department", "description"} :
          IsSubstring(toLowerCase(searchQuery), toLowerCase(c[f]))

\* C1: a canonical course is in the filtered list if and only if it matches
\* a selected grade, the selected department (or "All"), the AP-only toggle,
\* and, when the query is not empty, the lower-cased query is a substring of
\* its lower-cased name, code, department or description.
C1_FilterIffAllFour ==
    \A i \in DOMAIN COURSES :
        Shown(COURSES[i]) <=>
            (GradeOk(COURSES[i]) /\ DeptOk(COURSES[i]) /\ ApOk(COURSES[i]) /\ TextOk(COURSES[i]))

\* A course the query text matches is left out because of the department or
\* the AP toggle, while another course is shown.
C1_Witness ==
    /\ searchQuery # sEmpty
    /\ filtered # <<>>
    /\ \E i \in DOMAIN COURSES :
          /\ TextOk(COURSES[i]) /\ GradeOk(COURSES[i])
          /\ ~(DeptOk(COURSES[i]) /\ ApOk(COURSES[i]))
          /\ ~Shown(COURSES[i])

\* C2: with no grade selected the filtered list is empty, whatever the
\* department, the query, the AP toggle and the dataset.
C2_NoGradeNoCourse == selectedGrades = {} => filtered = <<>>

C2_Witness ==
    /\ selectedGrades = {}
    /\ Len(COURSES) >= 2
    /\ selectedDept = sAll
    /\ searchQuery = sEmpty
    /\ apOnly = FALSE

\* The elements of s at the positions of I, in increasing position.
RECURSIVE Pick(_, _)
Pick(s, I) ==
    IF s = <<>> THEN <<>>
    ELSE LET rest == Pick(SubSeq(s, 1, Len(s) - 1), I)
         IN IF Len(s) \in I THEN Append(rest, s[Len(s)]) ELSE rest

\* C3: with all four grades, department "All", an empty query and AP-only
\* off, the filtered list is COURSES itself, same elements in the same
\* order; in every state it is a subsequence of COURSES.
C3_FullSelectionShowsAll ==
    /\ FullSelection => filtered = COURSES
    /\ \E I \in SUBSET DOMAIN COURSES : filtered = Pick(COURSES, I)

\* The default selection again, after a card was opened.
C3_Witness ==
    /\ FullSelection
    /\ expandedId # null
    /\ Len(COURSES) >= 3
    /\ COURSES[1].department # COURSES[2].department

\* The filtered courses of one department, in the order of the filtered list.
OfDepartment(d) ==
    LET Test(c) == c.department = d
    IN SelectSeq(filtered, Test)

\* C4: the groups are (department, courses) pairs in strictly ascending
\* order of department name, so that no department repeats; each group
\* holds exactly the filtered courses of its department in their filtered
\* order; an empty filtered list gives no group.
C4_GroupedSortedStable ==
    /\ \A k, l \in DOMAIN grouped :
          k < l => localeCompare(grouped[k][1], grouped[l][1]) < 0
    /\ \A k \in DOMAIN grouped : grouped[k][2] = OfDepartment(grouped[k][1])
    /\ filtered = <<>> => grouped = <<>>

\* Under a search, two groups, one of them with two courses that are not
\* adjacent in the filtered list, and the first filtered course not in the
\* first group.
C4_Witness ==
    /\ searchQuery # sEmpty
    /\ Len(grouped) = 2
    /\ Len(filtered) = 3
    /\ filtered[1].department = filtered[3].department
    /\ filtered[1].department # filtered[2].department
    /\ grouped[1][1] = filtered[2].department

ExpectedDepartment(r) ==
    IF r.subject = sEnglish THEN sEnglish
    ELSE IF "sub_subject" \notin r.missing /\ Len(r.sub_subject) > 0 THEN r.sub_subject
    ELSE r.subject

\* C5: the department of a course is "English" when the subject is
\* "English", otherwise the sub_subject when present and not empty,
\* otherwise the subject; every raw record gives one course.
C5_DepartmentDerivation ==
    /\ Len(COURSES) = Len(rawCourses)
    /\ \A i \in DOMAIN rawCourses : COURSES[i].department = ExpectedDepartment(rawCourses[i])

\* An English record with another sub_subject, a record without sub_subject
\* and a record with its own sub_subject, all in one dataset.
C5_Witness ==
    /\ \E i \in DOMAIN rawCourses :
          /\ rawCourses[i].subject = sEnglish
          /\ "sub_subject" \notin rawCourses[i].missing
          /\ rawCourses[i].sub_subject \notin {sEmpty, sEnglish}
    /\ \E i \in DOMAIN rawCourses :
          /\ rawCourses[i].subject # sEnglish
          /\ "sub_subject" \in rawCourses[i].missing
    /\ \E i \in DOMAIN rawCourses :
          /\ rawCourses[i].subject # sEnglish
          /\ COURSES[i].department # rawCourses[i].subject

BeginsWithAP(name) ==
    /\ Len(name) >= 3
    /\ name[1] = "A"
    /\ name[2] = "P"
    /\ name[3] = " "

\* C6: the ap flag of a course is true exactly when its name begins with
\* "AP " (capital A, capital P, space); with AP-only on, every filtered
\* course has such a name.
C6_ApIsPrefix ==
    /\ \A i \in DOMAIN COURSES : COURSES[i].ap <=> BeginsWithAP(rawCourses[i].name)
    /\ apOnly => \A k \in DOMAIN filtered : BeginsWithAP(filtered[k].name)

\* AP-only on, an AP course shown, and a course named "APP..." that passes
\* every other filter.
C6_Witness ==
    /\ apOnly
    /\ filtered # <<>>
    /\ selectedDept = sAll
    /\ searchQuery = sEmpty
    /\ \E i \in DOMAIN COURSES :
          /\ startsWith(COURSES[i].name, <<"A","P","P">>)
          /\ GradeOk(COURSES[i])

\* C7: a record whose grades field is empty or absent raises no error in
\* normalisation or filtering and is never in the filtered list.
C7_MissingGradesExcluded ==
    /\ ~renderError
    /\ \A i \in DOMAIN rawCourses :
          ("grades" \in rawCourses[i].missing \/ rawCourses[i].grades = <<>>)
              => ~Shown(COURSES[i])

\* The ids of the cards on screen.
CardIds == {filtered[k].id : k \in DOMAIN filtered}

\* C8: nothing is expanded initially, expandedId never names more than one
\* course, and a click on the card of id sets expandedId to none when id is
\* the expanded one and to id otherwise: the click can have that effect and
\* no click has another.
C8_SingleExpansionToggle ==
    /\ expandedId = null
    /\ [](Cardinality({i \in DOMAIN COURSES : COURSES[i].id = expandedId}) <= 1)
    /\ [](\A id \in CardIds :
            ENABLED (ClickCard(id)
                     /\ expandedId' = IF expandedId = id THEN null ELSE id))
    /\ [][\A i \in DOMAIN COURSES :
            ClickCard(COURSES[i].id) =>
                expandedId' = IF expandedId = COURSES[i].id THEN null ELSE COURSES[i].id]_vars

C8_Witness ==
    /\ expandedId # null
    /\ Len(filtered) >= 2
    /\ filtered[1].id # expandedId

AnyFilterAction ==
    \/ \E i \in DOMAIN GRADES : ToggleGrade(GRADES[i])
    \/ ToggleApOnly
    \/ \E i \in DOMAIN deptOptions : SetSelectedDept(deptOptions[i])
    \/ \E q \in Queries : SetSearchQuery(q)

\* C9: a grade toggle, a department change, a query change and an AP toggle
\* leave expandedId as it is, also when the expanded course is filtered out;
\* a card click leaves the four filter fields as they are.
C9_ExpansionIndependentOfFilters ==
    [][/\ AnyFilterAction => expandedId' = expandedId
       /\ (\E i \in DOMAIN COURSES : ClickCard(COURSES[i].id)) => filterVars' = filterVars]_vars

\* The expanded course is filtered out and still marked expanded.
C9_Witness ==
    /\ expandedId # null
    /\ filtered # <<>>
    /\ \A k \in DOMAIN filtered : filtered[k].id # expandedId

\* C10: the options of the department select are "All" followed by the
\* departments of all canonical courses, each once, in ascending code-unit
\* order; neither COURSES nor the list changes in any step.
C10_DepartmentOptionsFixed ==
    /\ [](LET D == {COURSES[i].department : i \in DOMAIN COURSES}
          IN /\ Len(deptOptions) = 1 + Cardinality(D)
             /\ deptOptions[1] = sAll
             /\ {deptOptions[k] : k \in 2..Len(deptOptions)} = D
             /\ \A k, l \in 2..Len(deptOptions) :
                   k < l => CodeUnitLess(deptOptions[k], deptOptions[l]))
    /\ [][COURSES' = COURSES /\ DEPARTMENTS' = DEPARTMENTS]_vars

\* Three departments, not in sorted order in the dataset, and only one
\* course shown.
C10_Witness ==
    /\ Len(DEPARTMENTS) = 3
    /\ COURSES[1].department # DEPARTMENTS[1]
    /\ Len(filtered) = 1
    /\ selectedDept # sAll

RECURSIVE SumOfSizes(_)
SumOfSizes(g) ==
    IF g = <<>> THEN 0 ELSE Len(g[Len(g)][2]) + SumOfSizes(SubSeq(g, 1, Len(g) - 1))

\* The places (group, position) of the grouped output that hold course c.
PlacesOf(c) ==
    {p \in (DOMAIN grouped) \X (1..Len(filtered)) :
        p[2] \in DOMAIN grouped[p[1]][2] /\ grouped[p[1]][2][p[2]] = c}

\* C11: the groups partition the filtered list: no group is empty, every
\* filtered course is at exactly one place of the grouped output and every
\* grouped course is a filtered one, every group's department is one of
\* DEPARTMENTS, the group sizes add up to the displayed count, and the
\* no-results message is rendered exactly when that count is 0.
C11_GroupsPartitionFiltered ==
    /\ \A k \in DOMAIN grouped : Len(grouped[k][2]) >= 1
    /\ \A k \in DOMAIN grouped : Len(grouped[k][2]) <= Len(filtered)
    /\ \A i \in DOMAIN filtered : Cardinality(PlacesOf(filtered[i])) = 1
    /\ \A k \in DOMAIN grouped : \A i \in DOMAIN grouped[k][2] : Shown(grouped[k][2][i])
    /\ \A k \in DOMAIN grouped : InSeq(grouped[k][1], DEPARTMENTS)
    /\ SumOfSizes(grouped) = countShown
    /\ noResults <=> countShown = 0

\* Under a partial grade selection and with a card open, two courses shown
\* in one group and the other department of the dataset filtered out.
C11_Witness ==
    /\ selectedGrades # {9, 10, 11, 12}
    /\ Len(filtered) = 2
    /\ Len(grouped) = 1
    /\ Len(DEPARTMENTS) = 2
    /\ expandedId # null

====
